---- MODULE Spec2Model ----
(***************************************************************************)
(* m223s-to-mqtt: the bridge between one BLE multicooker and an MQTT       *)
(* broker (src/main.cpp).  The model is the event loop of main(): one      *)
(* action per callback the loop dispatches (polling timer, eventfd io      *)
(* source, bus reply callbacks, settle timers, the PropertiesChanged       *)
(* signal) plus the two things the environment does on its own (the        *)
(* broker thread writing the eventfd, the clock advancing).                *)
(*                                                                         *)
(* A handler is a function from the program's state to the SET of states   *)
(* it can leave behind, one per combination of answers of the bus; the     *)
(* action of the handler picks one of them.  Time is counted in half       *)
(* seconds, so that POLLING_INTERVAL (7.5 s) is a whole number.            *)
(***************************************************************************)
EXTENDS Integers, Sequences, FiniteSets, TLC

\* ------------------------------------------------------------ constants
CMD_CODE_AUTH == 255
CMD_CODE_QUERY == 6
CMD_CODE_OFF == 4
FRAME_START == 85
FRAME_END == 170
M223S_KEY == <<164, 59, 100, 176, 163, 251, 174, 203>>
\* half seconds
DISCOVERY_MIN_INTERVAL == 120
POLLING_INTERVAL == 15
TEN_MINUTES == 1200
ROUND_SLEEP == 2
LOCATE_ROUNDS == 5
MIN_VALUE_SIZE == 4
MIN_QUERY_SIZE == 20
CTR_MODULUS == 256

TX_UUID == "6e400002-b5a3-f393-e0a9-e50e24dcca9e"
RX_UUID == "6e400003-b5a3-f393-e0a9-e50e24dcca9e"

\* enum State
Disconnected == -3
Connected == -2
Authorized == -1
Off == 0
On == 5
Keep_warm == 6
\* enum Program
Frying == 0
Pilau == 3
Warming == 11

\* ------------------------------------------------------------ bounds
\* commands sent since the last reset, in the specifications that bound them
MaxCtr == 3
MaxCtrLocate == 1
MaxCtrCycle == 2
MaxCtrTopology == 1
MaxCtrIdle == 82
\* half seconds slept after a scan start, in the specifications that bound them
MaxAge == 10
\* bus calls and timers in flight
MaxPending == 1

\* ------------------------------------------------------------ state
VARIABLES
    device_state,      \* g.device_state
    device_path,       \* g.device_path
    tx_path,           \* g.tx_path
    rx_path,           \* g.rx_path
    rx_slot,           \* g.rx_slot /= nullptr
    event_fd,          \* whether g.event_fd is readable: 1 when its counter is not 0
    discovery_age,     \* now - g.last_start_discovery_time, saturated at the cooldown
    pending,           \* bus calls and timers in flight, with their continuations
    retained,          \* the retained message of the state topic
    scan_age,          \* time since StartDiscovery last succeeded, saturated
    scan_gap,          \* scan_age when StartDiscovery last succeeded
    timer,             \* whether the polling timer source is enabled
    notify_asked,      \* whether StartNotify was asked for on the present link
    handler,           \* the callback that ran last
    calls              \* what it asked of the bus and the broker, in order

vars == <<device_state, device_path, tx_path, rx_path, rx_slot, event_fd,
          discovery_age, pending, retained, scan_age, scan_gap, timer,
          notify_asked, handler, calls>>

\* ------------------------------------------------------------ helpers
Min(a, b) == IF a <= b THEN a ELSE b

Bind(S, F(_)) == UNION {F(x) : x \in S}

NoPath == <<>>

NoMsg == [state |-> "-", program |-> "-", temperature |-> -1, hours |-> -1, minutes |-> -1]

Call(name) == [call |-> name, value |-> <<>>, msg |-> NoMsg]

\* value = <<1>> when the answer is yes or the call succeeded, <<0>> otherwise
Asked(name, yes) == [call |-> name, value |-> <<IF yes THEN 1 ELSE 0>>, msg |-> NoMsg]

Log(w, entry) == [w EXCEPT !.calls = Append(@, entry)]

\* value[i] of the C++ vector (0-based)
Byte(value, i) == value[i + 1]

\* ------------------------------------------------------------ DeviceState
DefaultState ==
    [ctr |-> 0, program |-> Frying, state |-> Disconnected,
     temperature |-> 0, hours |-> 0, minutes |-> 0]

\* magic_enum::enum_name(State) after friendly(): "" when no enumerator has the value
StateName(s) ==
    CASE s = -3 -> "Disconnected"
      [] s = -2 -> "Connected"
      [] s = -1 -> "Authorized"
      [] s = 0 -> "Off"
      [] s = 1 -> "Setting"
      [] s = 2 -> "Delayed"
      [] s = 3 -> "Heating"
      [] s = 4 -> "Unknown"
      [] s = 5 -> "On"
      [] s = 6 -> "Keep warm"
      [] OTHER -> ""

ProgramName(p) ==
    CASE p = 0 -> "Frying"
      [] p = 1 -> "Cereals"
      [] p = 2 -> "Multicooker"
      [] p = 3 -> "Pilau"
      [] p = 4 -> "Steam"
      [] p = 5 -> "Baking"
      [] p = 6 -> "Stew"
      [] p = 7 -> "Soup"
      [] p = 8 -> "Milk porridge"
      [] p = 9 -> "Yoghurt"
      [] p = 10 -> "Express"
      [] p = 11 -> "Warming"
      [] OTHER -> ""

to_json(ds) ==
    [state |-> StateName(ds.state), program |-> ProgramName(ds.program),
     temperature |-> ds.temperature, hours |-> ds.hours, minutes |-> ds.minutes]

\* mosquitto_publish(..., M223S_STATE_TOPIC, ..., retain = true)
publish(w) ==
    [Log(w, [call |-> "publish", value |-> <<>>, msg |-> to_json(w.ds)])
        EXCEPT !.retained = to_json(w.ds)]

update_state_silent(w, state_) == [w EXCEPT !.ds.state = state_]

update_state(w, state_) == publish([w EXCEPT !.ds.state = state_])

update_state_full(w, state_, program_, temperature_, hours_, minutes_) ==
    publish([w EXCEPT !.ds.state = state_, !.ds.program = program_,
                      !.ds.temperature = temperature_, !.ds.hours = hours_,
                      !.ds.minutes = minutes_])

\* ------------------------------------------------------------ notifications
on_new_value_unchecked(w, value) ==
    IF Len(value) < MIN_VALUE_SIZE THEN w
    ELSE IF Byte(value, 2) = CMD_CODE_AUTH
         THEN update_state(w, IF Byte(value, 3) /= 0 THEN Authorized ELSE Connected)
    ELSE IF Byte(value, 2) = CMD_CODE_QUERY /\ Len(value) >= 12
         THEN update_state_full(w, Byte(value, 11), Byte(value, 3), Byte(value, 5),
                                Byte(value, 8), Byte(value, 9))
    ELSE w

on_new_value_shifted(w, value) ==
    IF Len(value) < MIN_VALUE_SIZE THEN w
    ELSE IF Byte(value, 2) = CMD_CODE_AUTH
         THEN update_state(w, IF Byte(value, 3) /= 0 THEN Authorized ELSE Connected)
    ELSE IF Byte(value, 2) = CMD_CODE_QUERY
         THEN IF Len(value) < MIN_QUERY_SIZE THEN w
              ELSE update_state_full(w, Byte(value, 11), Byte(value, 3), Byte(value, 5),
                                     Byte(value, 9), Byte(value, 10))
    ELSE w

on_new_value(w, value) ==
    IF Len(value) < MIN_VALUE_SIZE THEN w
    ELSE IF Byte(value, 2) = CMD_CODE_AUTH
         THEN update_state(w, IF Byte(value, 3) /= 0 THEN Authorized ELSE Connected)
    ELSE IF Byte(value, 2) = CMD_CODE_QUERY
         THEN IF Len(value) < MIN_QUERY_SIZE THEN w
              ELSE update_state_full(w, Byte(value, 11), Byte(value, 3), Byte(value, 5),
                                     Byte(value, 8), Byte(value, 9))
    ELSE w


\* The Value property of the notify characteristic is read (any of the values the
\* environment lets it take), or the read fails and nothing is done.
on_rx_message(w, values) ==
    {Log(w, Call("Value"))} \cup
    {on_new_value(Log(w, [call |-> "Value", value |-> v, msg |-> NoMsg]), v) : v \in values}

\* ------------------------------------------------------------ write pipeline
PendingKinds ==
    {"start_notify", "write_then_query", "write_then_log", "settle_then_query", "settle_then_log"}

RECURSIVE SumOver(_, _)
SumOver(f, S) ==
    IF S = {} THEN 0
    ELSE LET x == CHOOSE y \in S : TRUE IN f[x] + SumOver(f, S \ {x})

InFlight(pend) == SumOver(pend, PendingKinds)

AddPending(w, kind) == [w EXCEPT !.pending[kind] = @ + 1]

DelPending(w, kind) == [w EXCEPT !.pending[kind] = @ - 1]

WriteOp(then) == IF then = "query" THEN "write_then_query" ELSE "write_then_log"

SettleOp(writeop) == IF writeop = "write_then_query" THEN "settle_then_query" ELSE "settle_then_log"

\* The bus refuses a message addressed to an empty object path
\* (sd_bus_message_new_method_call returns -EINVAL); otherwise the message is
\* queued, or one of the calls fails and write_value returns without a callback.
write_value(w, value, then) ==
    LET w1 == Log(w, [call |-> "write_value", value |-> value, msg |-> NoMsg])
        sent == AddPending(Log(w1, [call |-> "WriteValue", value |-> value, msg |-> NoMsg]),
                           WriteOp(then))
    IN IF w.tx_path = NoPath THEN {w1} ELSE {w1, sent}

\* what sd-bus hands the callback of the WriteValue call: the method return, a
\* method error, or the error it makes up when the call's timeout has passed
WriteOutcomes == {"WriteValue returned", "WriteValue failed", "WriteValue timed out"}

\* the callback looks at neither the message nor ret_error: it arms the settle
\* timer with the continuation, whatever the outcome
write_reply(w, writeop, outcome) ==
    AddPending(DelPending(Log(w, Call(outcome)), writeop), SettleOp(writeop))

\* uint8_t ctr; ctr++
NextCtr(c) == (c + 1) % CTR_MODULUS

CmdFrame(ctr, code, payload) == <<FRAME_START, ctr, code>> \o payload \o <<FRAME_END>>

query_stale(w) ==
    write_value(w, CmdFrame(w.ds.ctr, CMD_CODE_QUERY, <<>>), "log")

query(w) ==
    write_value([w EXCEPT !.ds.ctr = NextCtr(@)],
                CmdFrame(w.ds.ctr, CMD_CODE_QUERY, <<>>), "log")

turnoff_as_query(w) ==
    write_value([w EXCEPT !.ds.ctr = NextCtr(@)],
                CmdFrame(w.ds.ctr, CMD_CODE_QUERY, <<>>), "log")

turnoff(w) ==
    write_value([w EXCEPT !.ds.ctr = NextCtr(@)],
                CmdFrame(w.ds.ctr, CMD_CODE_OFF, <<>>), "log")

\* the continuation authorize() hands to start_notify()
authorize_write(w) ==
    write_value([w EXCEPT !.ds.ctr = NextCtr(@)],
                CmdFrame(w.ds.ctr, CMD_CODE_AUTH, M223S_KEY), "query")

\* sd_bus_call_method_async either queues the call (its callback will run, on a
\* reply, an error or the call's timeout) or fails at once and nothing is pending.
start_notify(w) ==
    IF w.ds.state >= Authorized THEN authorize_write(w)
    ELSE LET w1 == Log(w, Call("StartNotify"))
         IN {AddPending(w1, "start_notify"), w1}

authorize(w) ==
    IF w.ds.state >= Authorized THEN query(w)
    ELSE start_notify(w)

\* ------------------------------------------------------------ topology
Node(name, uuid, kids) == [name |-> name, uuid |-> uuid, kids |-> kids]

TreeUnresolved == Node("dev", "", <<>>)

TreeFull ==
    Node("dev", "", <<Node("service000c", "6e400001-b5a3-f393-e0a9-e50e24dcca9e",
                           <<Node("char000d", TX_UUID, <<>>),
                             Node("char000f", RX_UUID, <<>>)>>)>>)

\* the services of the device shown only in part: the write characteristic is
\* not there yet
TreePartial ==
    Node("dev", "", <<Node("service000c", "6e400001-b5a3-f393-e0a9-e50e24dcca9e",
                           <<Node("char000f", RX_UUID, <<>>)>>)>>)

\* a second service that carries the same two characteristics
TreeTwin ==
    Node("dev", "", <<Node("service000c", "6e400001-b5a3-f393-e0a9-e50e24dcca9e",
                           <<Node("char000d", TX_UUID, <<>>),
                             Node("char000f", RX_UUID, <<>>)>>),
                      Node("service0020", "6e400001-b5a3-f393-e0a9-e50e24dcca9e",
                           <<Node("char0021", TX_UUID, <<>>),
                             Node("char0023", RX_UUID, <<>>)>>)>>)

RECURSIVE walk(_, _)
RECURSIVE walk_kids(_, _, _)
walk(path, node) ==
    <<[node |-> path, uuid |-> node.uuid]>> \o walk_kids(path, node.kids, 1)
walk_kids(path, kids, i) ==
    IF i > Len(kids) THEN <<>>
    ELSE walk(Append(path, kids[i].name), kids[i]) \o walk_kids(path, kids, i + 1)

\* the callback of walk(): the UUID property of the node is read
\* (value = <<uuid>> \o node) and compared with the two constants
RECURSIVE assign_paths(_, _, _)
assign_paths(w, visits, i) ==
    IF i > Len(visits) THEN w
    ELSE LET w1 == Log(w, [call |-> "UUID", value |-> <<visits[i].uuid>> \o visits[i].node,
                           msg |-> NoMsg])
         IN assign_paths(
                IF visits[i].uuid = TX_UUID THEN [w1 EXCEPT !.tx_path = visits[i].node]
                ELSE IF visits[i].uuid = RX_UUID THEN [w1 EXCEPT !.rx_path = visits[i].node]
                ELSE w1,
                visits, i + 1)

\* a resolver that subscribes whether or not the slot is already there
initialize_paths_resubscribing(w, path, tree) ==
    LET w1 == assign_paths(Log(w, Call("initialize_paths")), walk(path, tree), 1)
    IN IF w1.rx_path /= NoPath
       THEN {[Log(w1, Asked("AddMatch", TRUE)) EXCEPT !.rx_slot = TRUE],
             Log(w1, Asked("AddMatch", FALSE))}
       ELSE {w1}

\* sd_bus_match_signal fills g.rx_slot when it succeeds and leaves it null when
\* it fails
initialize_paths(w, path, tree) ==
    LET w1 == assign_paths(Log(w, Call("initialize_paths")), walk(path, tree), 1)
    IN IF w1.rx_path /= NoPath /\ ~w1.rx_slot
       THEN {[Log(w1, Asked("AddMatch", TRUE)) EXCEPT !.rx_slot = TRUE],
             Log(w1, Asked("AddMatch", FALSE))}
       ELSE {w1}

\* ------------------------------------------------------------ locator
adapters == <<"hci0", "hci1">>

\* the device as bluez names it under the first adapter
DevPath == <<"hci0", "dev_F9_DA_73_71_23_4A">>

Saturate(t) == Min(t, DISCOVERY_MIN_INTERVAL)

Elapse(w, d) ==
    [w EXCEPT !.age = Saturate(@ + d), !.scan_age = Saturate(@ + d)]

\* one round: the peers of each adapter are listed and their addresses read;
\* value = <<adapter, 1 if the target address is among them>>
RECURSIVE scan_adapters(_, _, _)
scan_adapters(w, i, known) ==
    IF i > Len(adapters) THEN w
    ELSE scan_adapters(
            Log(w, [call |-> "Introspect",
                    value |-> <<i, IF known /\ adapters[i] = DevPath[1] THEN 1 ELSE 0>>,
                    msg |-> NoMsg]),
            i + 1, known)

\* start_discovery(adapter_name) on each adapter, any answer from each
RECURSIVE start_adapters(_, _, _)
start_adapters(w, i, r) ==
    IF i > Len(adapters) THEN {[w |-> w, r |-> r]}
    ELSE Bind(BOOLEAN, LAMBDA rv :
            start_adapters(
                Log(w, [call |-> "StartDiscovery", value |-> <<i, IF rv THEN 1 ELSE 0>>,
                        msg |-> NoMsg]),
                i + 1, r \/ rv))

\* a start_discovery() that never holds back
Unthrottled(age) == FALSE

\* less than a minute since the last attempt to start a scan
Throttled(age) == age < DISCOVERY_MIN_INTERVAL

\* the scan clock restarts when some adapter started scanning
MarkScan(x) ==
    IF x.r THEN [x EXCEPT !.w.scan_gap = x.w.scan_age, !.w.scan_age = 0] ELSE x

start_discovery(w) ==
    LET w1 == Log(w, Call("start_discovery"))
    IN IF Throttled(w1.age) THEN {[w |-> w1, r |-> FALSE]}
       ELSE {MarkScan(x) : x \in start_adapters([w1 EXCEPT !.age = 0], 1, FALSE)}

RECURSIVE stop_discovery(_, _)
stop_discovery(w, i) ==
    IF i > Len(adapters) THEN w
    ELSE stop_discovery(Log(w, [call |-> "StopDiscovery", value |-> <<i>>, msg |-> NoMsg]), i + 1)

\* r: the round from which bluez knows the device (0: in none of them)
RECURSIVE wait_rounds(_, _, _, _, _)
wait_rounds(w, i, discovery_started, discovery_tried, r) ==
    IF i >= LOCATE_ROUNDS
    THEN {[w |-> IF discovery_started THEN stop_discovery(w, 1) ELSE w, ret |-> NoPath]}
    ELSE LET known == r /= 0 /\ i + 1 >= r
             w1 == scan_adapters(w, 1, known)
         IN IF known
            THEN {[w |-> IF discovery_started THEN stop_discovery(w1, 1) ELSE w1,
                   ret |-> DevPath]}
            ELSE Bind(IF ~discovery_tried THEN start_discovery(w1)
                      ELSE {[w |-> w1, r |-> discovery_started]},
                      LAMBDA x : wait_rounds(Elapse(x.w, ROUND_SLEEP), i + 1, x.r, TRUE, r))

\* a locator that takes the scan for started before it tried
wait_for_device_stopping(w, rounds) ==
    Bind(rounds, LAMBDA r : wait_rounds(w, 0, TRUE, FALSE, r))

wait_for_device(w, rounds) ==
    Bind(rounds, LAMBDA r : wait_rounds(w, 0, FALSE, FALSE, r))

\* ------------------------------------------------------------ session
\* the continuation update_m223s_state() hands to connect()
session(w, path, env) ==
    LET S == IF w.rx_path = NoPath \/ w.tx_path = NoPath
             THEN Bind(env.trees, LAMBDA t : initialize_paths(w, path, t))
             ELSE {w}
    IN Bind(S, LAMBDA w1 :
            IF w1.rx_path /= NoPath /\ w1.tx_path /= NoPath THEN authorize(w1) ELSE {w1})

\* a connect() that keeps the fields of the session before
connect_no_reset(w, env) ==
    Bind(env.links, LAMBDA connected :
        LET w0 == Log(w, Asked("Connected", connected))
        IN IF connected THEN session(w0, w0.device_path, env)
           ELSE LET w1 == update_state(w0, Disconnected)
                IN session(update_state(Log(w1, Asked("Connect", TRUE)), Connected),
                           w1.device_path, env)
                   \cup {Log(w1, Asked("Connect", FALSE))})

\* the Connected property is read (a failed read counts as not connected); when
\* it is not set, DeviceState starts over and one Connect call is made
connect(w, env) ==
    Bind(env.links, LAMBDA connected :
        LET w0 == Log(w, Asked("Connected", connected))
        IN IF connected THEN session(w0, w0.device_path, env)
           ELSE LET w1 == update_state([w0 EXCEPT !.ds = DefaultState], Disconnected)
                IN session(update_state(Log(w1, Asked("Connect", TRUE)), Connected),
                           w1.device_path, env)
                   \cup {Log(w1, Asked("Connect", FALSE))})

disconnect(w) == Log(Log(w, Call("StopNotify")), Call("Disconnect"))

update_m223s_state_reporting(w, env) ==
    Bind(wait_for_device(w, env.rounds), LAMBDA x :
        LET w1 == [x.w EXCEPT !.device_path = x.ret]
        IN IF x.ret /= NoPath THEN connect(w1, env) ELSE {update_state(w1, Disconnected)})

update_m223s_state(w, env) ==
    Bind(wait_for_device(w, env.rounds), LAMBDA x :
        LET w1 == [x.w EXCEPT !.device_path = x.ret]
        IN IF x.ret /= NoPath THEN connect(w1, env) ELSE {w1})

IdleTooLongInclusive(ctr) == ctr * POLLING_INTERVAL >= TEN_MINUTES

IdleTooLong(ctr) == ctr * POLLING_INTERVAL > TEN_MINUTES

\* a callback that returns without enabling its source again
polling_timer_once(w, env) ==
    LET w1 == [w EXCEPT !.timer = FALSE]
    IN update_m223s_state(IF IdleTooLong(w1.ds.ctr) THEN disconnect(w1) ELSE w1, env)

\* the timer source is one-shot: sd-event disables it before the callback runs,
\* and the callback enables it again, POLLING_INTERVAL from now, when it is done
polling_timer(w, env) ==
    LET w1 == [w EXCEPT !.timer = FALSE]
    IN {[x EXCEPT !.timer = TRUE] :
            x \in update_m223s_state(IF IdleTooLong(w1.ds.ctr) THEN disconnect(w1) ELSE w1,
                                     env)}


\* ------------------------------------------------------------ environment
AuthReply(granted) == <<FRAME_START, 0, CMD_CODE_AUTH, granted, FRAME_END>>

QueryReply(program, temperature, hours, minutes, state) ==
    <<FRAME_START, 0, CMD_CODE_QUERY, program, 0, temperature, 0, 0, hours, minutes,
      0, state, 0, 0, 0, 0, 0, 0, 0, FRAME_END>>

ReplyPilau == QueryReply(Pilau, 5, 8, 9, On)

ReplyWarming == QueryReply(Warming, 100, 0, 30, Keep_warm)

\* a query reply cut after 19 bytes
ReplyCut == SubSeq(ReplyPilau, 1, MIN_QUERY_SIZE - 1)

\* three bytes of an auth reply
ReplyShort == <<FRAME_START, 0, CMD_CODE_AUTH>>

\* the answer to an off command: a code on_new_value() does not know
ReplyOff == <<FRAME_START, 0, CMD_CODE_OFF, 1, FRAME_END>>

AuthPayloads == {AuthReply(1), AuthReply(0)}

AllPayloads ==
    AuthPayloads \cup {ReplyPilau, ReplyWarming, ReplyCut, ReplyShort, ReplyOff}

\* What the environment may answer, per specification: the rounds in which bluez
\* comes to know the device (0: never), the answers of the Connected property, the
\* attribute trees bluez shows, the values the notify characteristic takes, how
\* long the loop may sit idle, and the bounds on the counter and on the clock.
MainEnv ==
    [rounds |-> {0, 1, 2}, links |-> BOOLEAN, trees |-> {TreeUnresolved, TreeFull},
     payloads |-> AllPayloads, ticks |-> {DISCOVERY_MIN_INTERVAL},
     max_ctr |-> MaxCtr, max_age |-> MaxAge]

CounterEnv ==
    [rounds |-> {1}, links |-> BOOLEAN, trees |-> {TreeFull},
     payloads |-> AuthPayloads, ticks |-> {DISCOVERY_MIN_INTERVAL},
     max_ctr |-> CTR_MODULUS - 1, max_age |-> DISCOVERY_MIN_INTERVAL]

\* the locator under every timing, with a device whose services bluez has not
\* resolved: no cycle gets past the resolver and no write leaves
LocateEnv ==
    [rounds |-> 0 .. LOCATE_ROUNDS, links |-> BOOLEAN, trees |-> {TreeUnresolved},
     payloads |-> {}, ticks |-> {POLLING_INTERVAL, DISCOVERY_MIN_INTERVAL},
     max_ctr |-> MaxCtrLocate, max_age |-> DISCOVERY_MIN_INTERVAL]

\* every way a cycle can end, over a short run of commands: the device found or
\* not, the link up or not, the services resolved or not, the authorization
\* granted or its reply cut short
CycleEnv ==
    [rounds |-> {0, 1}, links |-> BOOLEAN, trees |-> {TreeUnresolved, TreeFull},
     payloads |-> {AuthReply(1), ReplyShort}, ticks |-> {DISCOVERY_MIN_INTERVAL},
     max_ctr |-> MaxCtrCycle, max_age |-> MaxAge]

\* the resolver over every shape of the attribute tree
TopologyEnv ==
    [rounds |-> {1}, links |-> BOOLEAN,
     trees |-> {TreeUnresolved, TreePartial, TreeFull, TreeTwin},
     payloads |-> {AuthReply(1)}, ticks |-> {DISCOVERY_MIN_INTERVAL},
     max_ctr |-> MaxCtrTopology, max_age |-> MaxAge]

\* a session that lasts past the ten minutes of the idle test, with a device that
\* may be gone when the cycle looks for it
IdleEnv ==
    [rounds |-> {0, 1}, links |-> BOOLEAN, trees |-> {TreeFull},
     payloads |-> {AuthReply(1)}, ticks |-> {DISCOVERY_MIN_INTERVAL},
     max_ctr |-> MaxCtrIdle, max_age |-> MaxAge]

\* ------------------------------------------------------------ actions
World ==
    [ds |-> device_state, device_path |-> device_path, tx_path |-> tx_path,
     rx_path |-> rx_path, rx_slot |-> rx_slot, age |-> discovery_age,
     pending |-> pending, retained |-> retained, scan_age |-> scan_age,
     scan_gap |-> scan_gap, timer |-> timer, calls |-> <<>>]

\* StartNotify was asked for, and neither StopNotify nor a new Connect since
RECURSIVE NotifyAsked(_, _, _)
NotifyAsked(asked, cs, i) ==
    IF i > Len(cs) THEN asked
    ELSE NotifyAsked(IF cs[i].call = "StartNotify" THEN TRUE
                     ELSE IF cs[i].call \in {"StopNotify", "Connect"} THEN FALSE
                     ELSE asked,
                     cs, i + 1)

Commit(w, name, env) ==
    /\ w.ds.ctr <= env.max_ctr
    /\ InFlight(w.pending) <= MaxPending
    /\ w.age <= env.max_age \/ w.age = DISCOVERY_MIN_INTERVAL
    /\ device_state' = w.ds
    /\ device_path' = w.device_path
    /\ tx_path' = w.tx_path
    /\ rx_path' = w.rx_path
    /\ rx_slot' = w.rx_slot
    /\ discovery_age' = w.age
    /\ pending' = w.pending
    /\ retained' = w.retained
    /\ scan_age' = w.scan_age
    /\ scan_gap' = w.scan_gap
    /\ timer' = w.timer
    /\ notify_asked' = NotifyAsked(notify_asked, w.calls, 1)
    /\ handler' = name
    /\ calls' = w.calls

Init ==
    /\ device_state = DefaultState
    /\ device_path = NoPath
    /\ tx_path = NoPath
    /\ rx_path = NoPath
    /\ rx_slot = FALSE
    /\ event_fd = 0
    /\ discovery_age = DISCOVERY_MIN_INTERVAL
    /\ pending = [k \in PendingKinds |-> 0]
    /\ retained = NoMsg
    /\ scan_age = DISCOVERY_MIN_INTERVAL
    /\ scan_gap = DISCOVERY_MIN_INTERVAL
    /\ timer = TRUE
    /\ handler = "main"
    /\ calls = <<>>
    /\ notify_asked = FALSE

\* the callback of the polling timer, which re-arms the timer
PollingTimer(env) ==
    /\ timer
    /\ \E w \in polling_timer(World, env) : Commit(w, "polling_timer", env)
    /\ UNCHANGED event_fd

\* the message callback of the broker client, on its own thread
MqttMessage(env) ==
    /\ event_fd' = 1
    /\ Commit(World, "mqtt_message", env)

\* the io callback of the eventfd, which reads the counter back to 0
OffTrigger(env) ==
    /\ event_fd = 1
    /\ event_fd' = 0
    /\ \E w \in turnoff(World) : Commit(w, "off_trigger", env)

\* the callback of the StartNotify call
StartNotifyDone(env) ==
    /\ pending["start_notify"] > 0
    /\ \E w \in authorize_write(DelPending(World, "start_notify")) :
            Commit(w, "start_notify_done", env)
    /\ UNCHANGED event_fd

\* the callback of the WriteValue call: a reply, an error or the timeout
WriteReply(env) ==
    /\ \E k \in {"write_then_query", "write_then_log"} :
            /\ pending[k] > 0
            /\ \E outcome \in WriteOutcomes :
                    Commit(write_reply(World, k, outcome), "write_reply", env)
    /\ UNCHANGED event_fd

\* the callback of the settle timer
SettleTimer(env) ==
    /\ \/ /\ pending["settle_then_query"] > 0
          /\ \E w \in query(DelPending(World, "settle_then_query")) :
                Commit(w, "settle_timer", env)
       \/ /\ pending["settle_then_log"] > 0
          /\ Commit(DelPending(World, "settle_then_log"), "settle_timer", env)
    /\ UNCHANGED event_fd

\* the PropertiesChanged signal of the notify characteristic
RxMessage(env) ==
    /\ rx_slot
    /\ \E w \in on_rx_message(World, env.payloads) : Commit(w, "on_rx_message", env)
    /\ UNCHANGED event_fd

\* the loop sits in epoll
Tick(env) ==
    /\ \E d \in env.ticks : Commit(Elapse(World, d), "tick", env)
    /\ UNCHANGED event_fd

Step(env) ==
    \/ PollingTimer(env)
    \/ MqttMessage(env)
    \/ OffTrigger(env)
    \/ StartNotifyDone(env)
    \/ WriteReply(env)
    \/ SettleTimer(env)
    \/ RxMessage(env)
    \/ Tick(env)

Next == Step(MainEnv)

NextCounter == Step(CounterEnv)

NextCycle == Step(CycleEnv)

NextIdle == Step(IdleEnv)

NextTopology == Step(TopologyEnv)

NextLocate ==
    \/ PollingTimer(LocateEnv)
    \/ MqttMessage(LocateEnv)
    \/ OffTrigger(LocateEnv)
    \/ Tick(LocateEnv)

Spec == Init /\ [][Next]_vars

SpecCounter == Init /\ [][NextCounter]_vars

\* the process may start less than 60 s after the epoch of the steady clock
InitLocate ==
    \E age \in {POLLING_INTERVAL, DISCOVERY_MIN_INTERVAL} :
        Init!1 /\ Init!2 /\ Init!3 /\ Init!4 /\ Init!5 /\ Init!6 /\ discovery_age = age
            /\ Init!8 /\ Init!9 /\ Init!10 /\ Init!11 /\ Init!12 /\ Init!13 /\ Init!14
            /\ Init!15

SpecLocate == InitLocate /\ [][NextLocate]_vars

\* sd-event dispatches every source that is pending: the io source of the eventfd
\* is not starved by the timers and the bus callbacks
FairSpecCounter == SpecCounter /\ WF_vars(OffTrigger(CounterEnv))

SpecTopology == Init /\ [][NextTopology]_vars

SpecIdle == Init /\ [][NextIdle]_vars

SpecCycle == Init /\ [][NextCycle]_vars

\* nor is the timer source, once its time has come
FairSpecCycle == SpecCycle /\ WF_vars(PollingTimer(CycleEnv))


\* ------------------------------------------------------------ what a handler did
Count(cs, name) == Len(SelectSeq(cs, LAMBDA e : e.call = name))

Has(cs, name) == Count(cs, name) > 0

Published(cs) == SelectSeq(cs, LAMBDA e : e.call = "publish")

Reported(ds) == <<ds.state, ds.program, ds.temperature, ds.hours, ds.minutes>>

\* the value on_rx_message read, <<>> when the read failed
ValueRead == calls'[1].value

OnePublish ==
    /\ Len(calls') = 2
    /\ calls'[2].call = "publish"
    /\ calls'[2].msg = to_json(device_state')
    /\ retained' = calls'[2].msg

Commands(cs) == SelectSeq(cs, LAMBDA e : e.call = "write_value")

BeginsWithDisconnect(cs) ==
    /\ Len(cs) >= 2
    /\ cs[1].call = "StopNotify"
    /\ cs[2].call = "Disconnect"

Operational(s) == s >= Off

\* the place of the first call of that name in cs, 0 when there is none
First(cs, name) ==
    IF Has(cs, name) THEN CHOOSE i \in 1 .. Len(cs) :
                            cs[i].call = name /\ \A j \in 1 .. i - 1 : cs[j].call /= name
    ELSE 0

\* the transitions of the session state machine, from s to t, in a handler that
\* made the calls cs
AllowedTransition(s, t, cs) ==
    \/ s = t
    \/ t = Disconnected
    \/ t = Connected /\ Has(cs, "Connect")
    \/ s = Connected /\ t = Authorized
    \/ (s = Authorized \/ Operational(s)) /\ Operational(t)
    \/ s = Authorized /\ t = Connected

\* the nodes the resolver visited, in order, each with the UUID it read there
Visits(cs) == SelectSeq(cs, LAMBDA e : e.call = "UUID")

VisitNode(e) == Tail(e.value)

VisitUuid(e) == e.value[1]

IsPrefix(p, q) == Len(p) <= Len(q) /\ SubSeq(q, 1, Len(p)) = p

\* every node comes after its parent, and with nothing but nodes below that parent
\* in between
DepthFirst(vs, root) ==
    /\ vs /= <<>>
    /\ VisitNode(vs[1]) = root
    /\ \A i \in 2 .. Len(vs) :
            \E j \in 1 .. i - 1 :
                /\ VisitNode(vs[j]) = SubSeq(VisitNode(vs[i]), 1, Len(VisitNode(vs[i])) - 1)
                /\ \A k \in j + 1 .. i - 1 : IsPrefix(VisitNode(vs[j]), VisitNode(vs[k]))

Matches(vs, uuid) == SelectSeq(vs, LAMBDA e : VisitUuid(e) = uuid)

\* the calls of cs before place i
Before(cs, i) == SubSeq(cs, 1, i - 1)

\* the calls of cs after place i
After(cs, i) == SubSeq(cs, i + 1, Len(cs))

\* the adapter's answers: whether the address was found, whether the scan started
Answered(cs, name, v) == Len(SelectSeq(cs, LAMBDA e : e.call = name /\ e.value[2] = v))

\* the cycle found the link up or brought it up
Linked(cs) ==
    \E i \in 1 .. Len(cs) : cs[i].call \in {"Connected", "Connect"} /\ cs[i].value = <<1>>

\* ------------------------------------------------------------ claims

\* C1: once the off topic has signalled the eventfd, the loop eventually runs the
\* off trigger, whatever is in flight and whatever the lifecycle state; the trigger
\* hands the write pipeline the frame [0x55, c, 0x04, 0xAA] with c the counter of
\* DeviceState at that moment, and leaves the counter at c + 1 modulo 256 and the
\* rest of DeviceState alone.
C1_OffIssued ==
    /\ (event_fd = 1) ~> (/\ handler = "off_trigger"
                          /\ event_fd = 0
                          /\ calls[1].call = "write_value"
                          /\ calls[1].value[3] = 4)
    /\ [][handler' = "off_trigger" =>
            /\ calls'[1].call = "write_value"
            /\ calls'[1].value = <<85, device_state.ctr, 4, 170>>
            /\ Count(calls', "write_value") = 1
            /\ device_state' =
                    [device_state EXCEPT !.ctr = (device_state.ctr + 1) % 256]]_vars

C1_Witness ==
    /\ handler = "off_trigger"
    /\ calls[1].value = <<85, 255, 4, 170>>
    /\ device_state.ctr = 0
    /\ device_state.state = Authorized
    /\ pending["settle_then_query"] = 1
    /\ pending["write_then_log"] = 0

C3_AppliedVerbatim ==
    [][handler' = "on_rx_message" =>
        /\ (Len(ValueRead) >= 20 /\ ValueRead[3] = 6) =>
                /\ device_state' = [device_state EXCEPT
                        !.program = ValueRead[4], !.temperature = ValueRead[6],
                        !.hours = ValueRead[9], !.minutes = ValueRead[10],
                        !.state = ValueRead[12]]
                /\ OnePublish
        /\ (Len(ValueRead) >= 4 /\ ValueRead[3] = 255) =>
                /\ device_state' = [device_state EXCEPT
                        !.state = IF ValueRead[4] /= 0 THEN Authorized ELSE Connected]
                /\ OnePublish]_vars

C3_Witness ==
    /\ handler = "on_rx_message"
    /\ calls[1].value = ReplyWarming
    /\ device_state.program = Warming
    /\ device_state.temperature = 100
    /\ device_state.hours = 0
    /\ device_state.minutes = 30
    /\ device_state.state = Keep_warm
    /\ device_state.ctr > 0

\* C4: a payload shorter than 4 bytes, a query payload shorter than 20 bytes or a
\* payload with an unknown command code is dropped: DeviceState, its counter
\* included, is unchanged and nothing is published.
C4_Dropped ==
    [][(/\ handler' = "on_rx_message"
        /\ \/ Len(ValueRead) < 4
           \/ ValueRead[3] = 6 /\ Len(ValueRead) < 20
           \/ ValueRead[3] \notin {6, 255})
        => /\ device_state' = device_state
           /\ retained' = retained
           /\ ~Has(calls', "publish")]_vars

C4_Witness ==
    /\ handler = "on_rx_message"
    /\ calls[1].value = ReplyCut
    /\ Len(calls[1].value) = 19
    /\ device_state.state = Authorized
    /\ device_state.ctr > 0

\* C5: a denied AuthResult (auth code, byte 3 = 0) puts the state back to Connected
\* and resets program, temperature, hours and minutes to Frying, 0, 0, 0.
C5_DeniedResets ==
    [][(/\ handler' = "on_rx_message"
        /\ Len(ValueRead) >= 4
        /\ ValueRead[3] = 255
        /\ ValueRead[4] = 0)
        => /\ device_state'.state = Connected
           /\ device_state'.program = Frying
           /\ device_state'.temperature = 0
           /\ device_state'.hours = 0
           /\ device_state'.minutes = 0]_vars

\* C6: the lifecycle state starts as Disconnected and moves only along the
\* transitions of the session state machine: to Disconnected from anywhere,
\* Disconnected to Connected by a successful connect, Connected to Authorized,
\* Authorized or operational to operational, Authorized to Connected.
C6_Transitions ==
    /\ device_state.state = Disconnected
    /\ [][AllowedTransition(device_state.state, device_state'.state, calls')]_vars

\* C7: a handler sends at most one command; the byte at offset 1 of its frame is
\* the counter of DeviceState when it is sent and the counter is that value plus
\* one modulo 256 afterwards; a handler that sends none leaves the counter alone,
\* or is a cycle that found the device not connected and reset the counter to 0.
C7_CounterTagsFrames ==
    [][LET sent == Commands(calls')
           reset == handler' = "polling_timer" /\ Has(calls', "Connect")
           c == IF reset THEN 0 ELSE device_state.ctr
       IN /\ Len(sent) <= 1
          /\ Len(sent) = 1 =>
                /\ sent[1].value[1] = 85
                /\ sent[1].value[2] = c
                /\ sent[1].value[3] \in {255, 6, 4}
                /\ device_state'.ctr = (c + 1) % 256
          /\ Len(sent) = 0 => device_state'.ctr = c]_vars

C7_Witness ==
    /\ handler = "settle_timer"
    /\ calls /= <<>>
    /\ calls[1].value = <<85, 255, 6, 170>>
    /\ device_state.ctr = 0
    /\ device_state.state = Connected

\* C8 as the specification states it: a cycle begins with an explicit disconnect
\* exactly when the counter is 80 or more (80 x 7.5 s = 10 minutes).
C8_AtTenMinutes ==
    [][handler' = "polling_timer" =>
        /\ device_state.ctr >= 80 => BeginsWithDisconnect(calls')
        /\ device_state.ctr < 80 => ~Has(calls', "Disconnect")]_vars

\* C8 as the code has it: a cycle begins with an explicit disconnect, before it
\* looks for the device and before any connect, exactly when the counter times
\* 7.5 s is more than 10 minutes, that is when the counter is 81 or more.
C8_BeyondTenMinutes ==
    [][handler' = "polling_timer" =>
        /\ device_state.ctr >= 81 =>
                /\ BeginsWithDisconnect(calls')
                /\ Count(calls', "Disconnect") = 1
                /\ Len(calls') > 2
                /\ calls'[3].call = "Introspect"
        /\ device_state.ctr <= 80 =>
                /\ ~Has(calls', "Disconnect")
                /\ ~Has(calls', "StopNotify")]_vars

C8_Witness ==
    /\ handler = "polling_timer"
    /\ BeginsWithDisconnect(calls)
    /\ Has(calls, "Connect")
    /\ device_state.ctr = 0
    /\ device_state.state = Connected

\* C9: a scan is never started less than 60 s after the scan before it, and a
\* cycle that runs less than 60 s after the last scan start starts no scan and
\* stops none.
C9_Cooldown ==
    /\ [](scan_gap >= 120)
    /\ [][(handler' = "polling_timer" /\ scan_age < 120)
            => /\ ~Has(calls', "StartDiscovery")
               /\ ~Has(calls', "StopDiscovery")]_vars

\* a cycle that needed a scan (its first round did not find the device) 59 s after
\* the last scan start
C9_Witness ==
    /\ handler = "polling_timer"
    /\ Count(calls, "Introspect") = 5 * Len(adapters)
    /\ ~Has(calls, "StartDiscovery")
    /\ scan_age = 118
    /\ discovery_age = 118

\* C10: a cycle in none of whose rounds an adapter knows the target address runs
\* exactly 5 rounds, finds no device, publishes nothing, asks for no connect, no
\* StartNotify and no write, and leaves DeviceState as it was.
C10_NotFound ==
    [][(/\ handler' = "polling_timer"
        /\ \A i \in 1 .. Len(calls') :
                calls'[i].call = "Introspect" => calls'[i].value[2] = 0)
        => /\ Count(calls', "Introspect") = 5 * Len(adapters)
           /\ device_path' = NoPath
           /\ device_state' = device_state
           /\ retained' = retained
           /\ pending' = pending
           /\ \A c \in {"publish", "Connect", "StartNotify", "write_value", "WriteValue"} :
                ~Has(calls', c)]_vars

C10_Witness ==
    /\ handler = "polling_timer"
    /\ device_path = NoPath
    /\ Count(calls, "Introspect") = 10
    /\ device_state.state = On
    /\ retained.state = "On"
    /\ pending["write_then_log"] = 1

\* C11: whatever a cycle ran into (device not found, connect failed, attributes
\* not resolved, a write refused, a notification dropped), the polling timer is
\* enabled again when its callback is done and no handler disables it: in every
\* state a further cycle can run, and under fairness of the loop one always
\* eventually does.
C11_CyclesForever ==
    /\ [](timer /\ ENABLED PollingTimer(CycleEnv))
    /\ []<>(<<PollingTimer(CycleEnv)>>_vars)

\* a cycle whose connect failed, while a write of an earlier handler is in flight
C11_Witness ==
    /\ handler = "polling_timer"
    /\ timer
    /\ Has(calls, "Connect")
    /\ device_state.state = Disconnected
    /\ InFlight(pending) = 1

\* C12: a query frame is issued only while the lifecycle state is Authorized or
\* operational; the settle timer of the auth write sends no query when no granted
\* AuthResult has arrived.
C12_QueryOnceAuthorized ==
    [][(\E i \in 1 .. Len(calls') :
            calls'[i].call = "write_value" /\ calls'[i].value[3] = 6)
        => device_state'.state >= Authorized]_vars

\* C13: the continuation of a write runs only from the settle timer, never from
\* the callback of the write itself; and a write that failed or timed out arms no
\* settle timer, so that its continuation never runs and no further command of
\* the cycle is sent.
C13_FailedWriteAborts ==
    [][handler' = "write_reply" =>
        /\ ~Has(calls', "write_value")
        /\ (Has(calls', "WriteValue failed") \/ Has(calls', "WriteValue timed out"))
            => /\ pending'["settle_then_query"] = pending["settle_then_query"]
               /\ pending'["settle_then_log"] = pending["settle_then_log"]]_vars

\* C14: a cycle that finds the device reads the Connected property once.  When it
\* is set, the cycle goes on without a Connect call, publishes nothing and leaves
\* the published fields and the counter's run alone.  When it is not, DeviceState
\* is put back to its defaults and published as Disconnected, then exactly one
\* Connect call is made; when that call fails it is the last thing the cycle does:
\* DeviceState stays at its defaults, state Disconnected, and no resolve,
\* StartNotify or command follows.
C14_ConnectStep ==
    [][(handler' = "polling_timer" /\ Has(calls', "Connected")) =>
        LET i == First(calls', "Connected")
        IN /\ Count(calls', "Connected") = 1
           /\ calls'[i].value = <<1>> =>
                /\ ~Has(calls', "Connect")
                /\ ~Has(calls', "publish")
                /\ retained' = retained
                /\ Reported(device_state') = Reported(device_state)
                /\ device_state'.ctr =
                        (device_state.ctr + Count(calls', "write_value")) % 256
           /\ calls'[i].value = <<0>> =>
                /\ Len(calls') >= i + 2
                /\ calls'[i + 1].call = "publish"
                /\ calls'[i + 1].msg = to_json(DefaultState)
                /\ calls'[i + 2].call = "Connect"
                /\ Count(calls', "Connect") = 1
                /\ calls'[i + 2].value = <<0>> =>
                        /\ Len(calls') = i + 2
                        /\ device_state' = DefaultState
                        /\ retained' = to_json(DefaultState)
                        /\ pending' = pending]_vars

\* a failed Connect in a cycle that began with the paths resolved and subscribed
C14_Witness ==
    /\ handler = "polling_timer"
    /\ calls[Len(calls)] = Asked("Connect", FALSE)
    /\ device_state = DefaultState
    /\ retained.state = "Disconnected"
    /\ rx_slot
    /\ tx_path /= NoPath

\* C15: a run of the resolver starts at the device node and visits the nodes
\* below it depth first; a path that was empty is set to the FIRST node visited
\* whose UUID is that of its role, also when a later node has the same UUID.
C15_FirstMatchWins ==
    [][Has(calls', "initialize_paths") =>
        LET vs == Visits(calls')
        IN /\ DepthFirst(vs, device_path')
           /\ (tx_path = NoPath /\ Matches(vs, TX_UUID) /= <<>>)
                => tx_path' = VisitNode(Matches(vs, TX_UUID)[1])
           /\ (rx_path = NoPath /\ Matches(vs, RX_UUID) /= <<>>)
                => rx_path' = VisitNode(Matches(vs, RX_UUID)[1])]_vars

\* C16: a path that is not empty never changes again, whatever the handler and
\* also when the resolver runs again for the other path; and no handler runs the
\* resolver when both paths are set.
C16_PathsStable ==
    [][/\ tx_path /= NoPath => tx_path' = tx_path
       /\ rx_path /= NoPath => rx_path' = rx_path
       /\ (tx_path /= NoPath /\ rx_path /= NoPath)
            => ~Has(calls', "initialize_paths")]_vars

\* C17: the PropertiesChanged subscription is asked for only by the resolver, only
\* while there is none and only with a notify path that is not empty, at most once
\* in a handler; once established it is never dropped or replaced.  So it is
\* established at most once, however many times the resolver runs.
C17_SubscribedOnce ==
    /\ [](rx_slot => rx_path /= NoPath)
    /\ [][/\ rx_slot => rx_slot'
          /\ Count(calls', "AddMatch") <= 1
          /\ Has(calls', "AddMatch") =>
                /\ ~rx_slot
                /\ rx_path' /= NoPath
                /\ Has(calls', "initialize_paths")
                /\ rx_slot' = (calls'[First(calls', "AddMatch")].value = <<1>>)
          /\ ~Has(calls', "AddMatch") => rx_slot' = rx_slot]_vars

\* the resolver runs again, for the write path, with the subscription in place
C17_Witness ==
    /\ handler = "polling_timer"
    /\ Has(calls, "initialize_paths")
    /\ ~Has(calls, "AddMatch")
    /\ rx_slot
    /\ tx_path = NoPath

\* C18: one call of the locator tries to start a scan at most once, right after
\* its first round when that round did not find the device; the rounds go on
\* until one finds the device or 5 are done, whether the start succeeded, failed
\* or was held back; and after the last round the scan is stopped, on every
\* adapter, exactly when an adapter started scanning in this call.
C18_ScanBracket ==
    [][handler' = "polling_timer" =>
        LET cs == calls'
            n == Len(adapters)
            i == First(cs, "start_discovery")
            looks == Count(cs, "Introspect")
            started == Answered(cs, "StartDiscovery", 1) > 0
        IN /\ Count(cs, "start_discovery") <= 1
           /\ Count(cs, "StartDiscovery") \in {0, n}
           /\ Has(cs, "StartDiscovery") => Has(cs, "start_discovery")
           /\ i > 0 =>
                /\ Count(Before(cs, i), "Introspect") = n
                /\ Answered(Before(cs, i), "Introspect", 1) = 0
                /\ ~Has(Before(cs, i), "StartDiscovery")
           /\ looks \in {k * n : k \in 1 .. 5}
           /\ looks > n => i > 0
           /\ Answered(cs, "Introspect", 1) = 0 => looks = 5 * n
           /\ Answered(cs, "Introspect", 1) <= 1
           /\ Count(cs, "StopDiscovery") = IF started THEN n ELSE 0
           /\ started =>
                /\ Count(Before(cs, First(cs, "StopDiscovery")), "Introspect") = looks
                /\ ~Has(After(cs, First(cs, "StopDiscovery")), "StartDiscovery")]_vars

\* the start was tried and failed on every adapter, the rounds went on and the
\* third found the device; nothing was stopped
C18_Witness ==
    /\ handler = "polling_timer"
    /\ Has(calls, "StartDiscovery")
    /\ Answered(calls, "StartDiscovery", 1) = 0
    /\ Count(calls, "Introspect") = 3 * Len(adapters)
    /\ ~Has(calls, "StopDiscovery")
    /\ device_path = DevPath

\* C19: a cycle on a link that has stayed up asks for StartNotify only when it
\* was not asked for on that link before; and the callback of a StartNotify call
\* sends the auth command.
C19_StartNotifyOnce ==
    [][/\ (/\ handler' = "polling_timer"
           /\ notify_asked
           /\ ~Has(calls', "Connect")
           /\ ~Has(calls', "StopNotify"))
            => ~Has(calls', "StartNotify")
       /\ handler' = "start_notify_done"
            => /\ calls' /= <<>>
               /\ calls'[1].call = "write_value"
               /\ calls'[1].value[3] = 255]_vars

\* C20: the lifecycle state rises from below Authorized to Authorized or an
\* operational state only by a granted AuthResult (auth code, byte 3 not 0); as
\* every reset of DeviceState leaves it Disconnected, the state is Authorized or
\* operational only if a grant has arrived since the last reset.
C20_AuthorizedOnlyByGrant ==
    [][(device_state.state < Authorized /\ device_state'.state >= Authorized)
        => /\ handler' = "on_rx_message"
           /\ Len(ValueRead) >= 4
           /\ ValueRead[3] = 255
           /\ ValueRead[4] /= 0]_vars

\* C21: a cycle that ends with the device not connected (not found, or the
\* Connect call failed) leaves Disconnected as the state published last, if any
\* was published; and when the cycle began with the explicit disconnect of the
\* idle test, the state in memory is Disconnected as well.
C21_NoStaleState ==
    [][(handler' = "polling_timer" /\ ~Linked(calls')) =>
        /\ retained' /= NoMsg => retained'.state = "Disconnected"
        /\ Has(calls', "Disconnect") => device_state'.state = Disconnected]_vars

====
